---- MODULE Spec2Model ----
(***************************************************************************)
(* MCVirt virtual machine factory                                          *)
(* (usr/lib/mcvirt/virtual_machine/factory.py).                            *)
(*                                                                         *)
(* The cluster is a set of nodes; every node runs one Factory object with  *)
(* its own MCVirt configuration (the list 'virtual_machines'), its own VM  *)
(* directories, its own per-VM configuration files, its own libvirt and    *)
(* its own lock.  Clients call Factory.create on a node; a call made with  *)
(* the cluster-master role repeats the create on every other node.         *)
(*                                                                         *)
(* An argument of a call is drawn when the code first reads it: a value    *)
(* the run has not read cannot influence the run, and the frame of a call  *)
(* holds the default of every argument the run never read.                 *)
(***************************************************************************)
EXTENDS Integers, Sequences, FiniteSets, TLC

\* ------------------------------------------------------------------ bounds
\* Largest cluster; the cluster of a run has 1..MaxNodes members.
MaxNodes == 2
\* Longest available_nodes list a caller passes.
MaxAvail == 2
\* Number of create calls the clients issue in one run.
MaxCalls == 2
\* Longest name handed to checkName.
MaxNameLen == 3
\* Most names the 'virtual_machines' list holds when checkName is called.
MaxListed == 1

\* --------------------------------------------------------------- constants
\* NodeDRBD.CLUSTER_SIZE, read at factory.py:154 ('Exactly two nodes').
CLUSTER_SIZE == 2
\* The minimum name length of checkName (factory.py:90).
MIN_NAME_LENGTH == 3

\* Python's None, for the node argument and the node field of a VM.
None == 0
\* Host names are 1..MaxNodes; the members of the cluster are 1..clusterSize.
Hosts == 1..MaxNodes
Clients == {"c1", "c2"}
NoHolder == "free"

\* ------------------------------------------------------------------- names
\* A name is a sequence of characters (one-character strings).
Lower == {"a","b","c","d","e","f","g","h","i","j","k","l","m",
          "n","o","p","q","r","s","t","u","v","w","x","y","z"}
Upper == {"A","B","C","D","E","F","G","H","I","J","K","L","M",
          "N","O","P","Q","R","S","T","U","V","W","X","Y","Z"}
Digits == {"0","1","2","3","4","5","6","7","8","9"}

\* The characters a VM name may hold by the error message of factory.py:87
\* and by the spec: [A-Za-z0-9-].
DocumentedChars == Lower \cup Upper \cup Digits \cup {"-"}

\* The characters the class [^a-z^0-9^A-Z-] excludes from its match: inside a
\* negated class only the first ^ negates, the later ones are literal.
ExcludedByClass == Lower \cup {"^"} \cup Digits \cup Upper \cup {"-"}

\* re.compile(r'[^a-z^0-9^A-Z-]').search(name): some character matches.
valid_name_re(name) == \E i \in 1..Len(name) : name[i] \notin ExcludedByClass

\* The names the clients use with create.
NameOK == <<"v", "m", "1">>
NameShort == <<"a", "b">>
NameBad == <<"a", "!", "b">>
CreateNames == {NameOK, NameShort, NameBad}

\* ------------------------------------------------------------- exceptions
OK == "OK"
InsufficientPermissions == "InsufficientPermissionsException"
InvalidName == "InvalidVirtualMachineNameException"
ClusterNotInitialised == "ClusterNotInitialisedException"
VmAlreadyExists == "VmAlreadyExistsException"
DRBDNotEnabled == "DRBDNotEnabledOnNode"
\* factory.py:133 raises a name the module never imports (factory.py:16-19).
NameErrorRaised == "NameError: VmDirectoryAlreadyExistsException"
InvalidNodeCount == "InvalidNodesException: Exactly two nodes must be specified"
NodeDoesNotExist == "NodeDoesNotExistException"
InvalidNodes == "InvalidNodesException: One of the nodes must be the local node"
OSErrorRaised == "OSError: File exists"
\* The exception that factory.py:133 names.
VmDirectoryAlreadyExists == "VmDirectoryAlreadyExistsException"


\* ------------------------------------------------------------------- state
VARIABLES
    clusterSize,       \* the members of the cluster are the hosts 1..clusterSize
    virtual_machines,  \* per node: MCVirtConfig().getConfig()['virtual_machines']
    vmDirs,            \* per node: the names whose VirtualMachine.getVMDir exists
    vmConfig,          \* per node: the VirtualMachineConfig records created
    domains,           \* per node: the names registered with libvirt
    hardDrives,        \* per node: the hard_drive_factory.create calls made
    adapters,          \* per node: the network_adapter_factory.create calls made
    lock,              \* per node: the client whose create holds the lock
    frame,             \* per client: the create call in progress, or its outcome
    calls,             \* the number of create calls issued so far
    checked,           \* the last checkName call: its node, name and outcome
    listed             \* the last getAllVmNames call: its node, argument and outcome

vars == <<clusterSize, virtual_machines, vmDirs, vmConfig, domains, hardDrives,
          adapters, lock, frame, calls, checked, listed>>

nodeState == <<virtual_machines, vmDirs, vmConfig, domains, hardDrives, adapters>>

Range(s) == {s[i] : i \in 1..Len(s)}

\* Sequences over S of length at most n.
SeqsUpTo(S, n) == UNION {[1..k -> S] : k \in 0..n}

\* get_hostname() in the process of node h.
get_hostname(h) == h

\* cluster_object.getNodes(return_all=True): the other members of the cluster.
getNodes(h) == SelectSeq([i \in 1..clusterSize |-> i], LAMBDA n : n # h)

\* factory.py:139-140.
all_nodes(h) == Append(getNodes(h), get_hostname(h))

\* getAllVmNames(node=None), factory.py:51-52.
getAllVmNames(h) == virtual_machines[h]

\* checkExists, factory.py:78-80.
checkExistsOnLibvirt(h, vm_name) == vm_name \in domains[h]
checkExists(h, vm_name) == vm_name \in Range(getAllVmNames(h))

\* os_path_exists(VirtualMachine.getVMDir(name)), factory.py:132.
os_path_exists(h, name) == name \in vmDirs[h]

\* assertPermission(PERMISSIONS.CREATE_VM) raises, factory.py:104.  The
\* auth_check argument (factory.py:102) is not read.
PermissionRaises(authorized, auth_check) == ~authorized

\* The name validation of create, factory.py:107-111: the class test only.
CreateNameRaises(name) == valid_name_re(name)

\* factory.py:124-125.
ResolveNode(h, node) == IF node = None THEN get_hostname(h) ELSE node

\* factory.py:142-149.
ResolveAvailableNodes(h, available_nodes, storage_type) ==
    IF Len(available_nodes) = 0
    THEN IF storage_type = "DRBD" THEN all_nodes(h) ELSE <<get_hostname(h)>>
    ELSE available_nodes

\* factory.py:154.
NodeCountRaisesWhenMore(storage_type, available_nodes) ==
    storage_type = "DRBD" /\ Len(available_nodes) > CLUSTER_SIZE
NodeCountRaises(storage_type, available_nodes) ==
    storage_type = "DRBD" /\ Len(available_nodes) # CLUSTER_SIZE

\* factory.py:157-159.
UnknownNodeRaises(h, available_nodes) ==
    \E i \in 1..Len(available_nodes) : available_nodes[i] \notin Range(all_nodes(h))

\* factory.py:161.
MasterExclusionRaisesOnMember(h, available_nodes, is_cluster_master) ==
    get_hostname(h) \notin Range(available_nodes) /\ ~is_cluster_master
MasterExclusionRaises(h, available_nodes, is_cluster_master) ==
    get_hostname(h) \notin Range(available_nodes) /\ is_cluster_master

\* ------------------------------------------------------------------ frames
StorageTypes == {"None", "DRBD"}
NodeArgs == {None} \cup Hosts
AvailArgs == SeqsUpTo(Hosts, MaxAvail)
CpuArgs == {2}
MemArgs == {512}
HardDriveArgs == {<<>>, <<10>>}
NetworkArgs == {<<>>, <<"net0">>}

\* The frame of a client that has no call in progress.  Every argument holds
\* its default (factory.py:100-102).
Idle ==
    [pc |-> "idle", host |-> None, name |-> <<>>, cpu_cores |-> 0,
     memory_allocation |-> 0, hard_drives |-> <<>>, network_interfaces |-> <<>>,
     node |-> None, available_nodes |-> <<>>, storage_type |-> "None",
     auth_check |-> TRUE, authorized |-> TRUE, cluster_disabled |-> FALSE,
     drbd_enabled |-> TRUE, is_cluster_master |-> FALSE, result |-> "none",
     todo |-> {}, failed_node |-> None, available_nodes_arg |-> <<>>,
     existed |-> FALSE, raced |-> FALSE]

\* No getAllVmNames call has been made.
NotListed ==
    [host |-> None, node |-> None, reachable |-> TRUE, result |-> "none",
     names |-> <<>>, domains |-> {}, remote_calls |-> <<>>]

TypeOK ==
    /\ clusterSize \in 1..MaxNodes
    /\ calls \in 0..MaxCalls
    /\ \A h \in Hosts : lock[h] \in Clients \cup {NoHolder}
    /\ \A c \in Clients : frame[c].pc \in
           {"idle", "waiting", "validated", "mutated", "done", "returned"}

Init ==
    /\ clusterSize \in 1..MaxNodes
    /\ virtual_machines = [h \in Hosts |-> <<>>]
    /\ vmDirs \in [Hosts -> SUBSET {NameOK}]
    /\ \A h \in Hosts : h > clusterSize => vmDirs[h] = {}
    /\ vmConfig = [h \in Hosts |-> {}]
    /\ domains = [h \in Hosts |-> {}]
    /\ hardDrives = [h \in Hosts |-> <<>>]
    /\ adapters = [h \in Hosts |-> <<>>]
    /\ lock = [h \in Hosts |-> NoHolder]
    /\ frame = [c \in Clients |-> Idle]
    /\ calls = 0
    /\ checked = [host |-> None, name |-> <<>>, result |-> "none"]
    /\ listed = NotListed


\* ----------------------------------------------------------------- actions
\* lockingMethod (factory.py:99): the lock of the Factory of node h is free.
LockNeverHeld(h) == TRUE
LockFree(h) == lock[h] = NoHolder

\* A finished call hands its outcome to its caller before any other step.
NoneDone == \A d \in Clients : frame[d].pc # "done"

\* The call of client c ends by raising r; f is its frame at the raise.  No
\* raise of create (factory.py:104-162) follows a statement that changes the
\* node, and nothing is undone.
RaiseAfterMakedirs(c, f, r) ==
    /\ frame' = [frame EXCEPT ![c] = [f EXCEPT !.pc = "done", !.result = r]]
    /\ vmDirs' = [vmDirs EXCEPT ![f.host] = @ \cup {f.name}]
    /\ UNCHANGED <<virtual_machines, vmConfig, domains, hardDrives, adapters>>
RaiseRolledBack(c, f, r) ==
    /\ frame' = [frame EXCEPT ![c] = [f EXCEPT !.pc = "done", !.result = r]]
    /\ vmDirs' = [vmDirs EXCEPT ![f.host] = @ \ {f.name}]
    /\ UNCHANGED <<virtual_machines, vmConfig, domains, hardDrives, adapters>>
Raise(c, f, r) ==
    /\ frame' = [frame EXCEPT ![c] = [f EXCEPT !.pc = "done", !.result = r]]
    /\ UNCHANGED nodeState

\* VirtualMachineConfig.create(name, available_nodes, cpu_cores,
\* memory_allocation), factory.py:176.  The node field is unset.
NewConfig(name, available_nodes, cpu_cores, memory_allocation) ==
    [name |-> name, nodes |-> available_nodes, cpu_cores |-> cpu_cores,
     memory_allocation |-> memory_allocation, node |-> None]

\* updateMCVirtConfig, factory.py:168-169.
updateMCVirtConfigSkipped(virtual_machines_list, name) == virtual_machines_list
updateMCVirtConfig(virtual_machines_list, name) == Append(virtual_machines_list, name)

\* vm_object._setNode(node), and the set_node=True part of _register.
SetNode(configs, name, node) ==
    {IF r.name = name THEN [r EXCEPT !.node = node] ELSE r : r \in configs}

\* factory.py:194: create registers the VM with libvirt on its node h.
RegistersAlways(h, node) == TRUE
Registers(h, node) == node = get_hostname(h)

\* factory.py:204-209: the hard_drive_factory.create calls of create.
CreateHardDrivesSkipped(is_cluster_master, name, hard_drives) == <<>>
CreateHardDrives(is_cluster_master, name, hard_drives) ==
    IF is_cluster_master
    THEN [i \in 1..Len(hard_drives) |-> <<name, hard_drives[i]>>]
    ELSE <<>>

\* factory.py:204, 213-218: the network_adapter_factory.create calls of create.
CreateNetworkAdapters(is_cluster_master, name, network_interfaces) ==
    IF is_cluster_master
    THEN [i \in 1..Len(network_interfaces) |-> <<name, network_interfaces[i]>>]
    ELSE <<>>

\* A client calls create on node h of the cluster and waits for the lock.
Call(c, h) ==
    /\ frame[c].pc \in {"idle", "returned"}
    /\ NoneDone
    /\ calls < MaxCalls
    /\ h \in 1..clusterSize
    /\ frame' = [frame EXCEPT ![c] = [Idle EXCEPT !.pc = "waiting", !.host = h]]
    /\ calls' = calls + 1
    /\ UNCHANGED <<clusterSize, nodeState, lock, checked, listed>>

\* factory.py:154-162, the checks on the resolved available_nodes.
BeginNodes(c, f, h) ==
    IF NodeCountRaises(f.storage_type, f.available_nodes)
    THEN Raise(c, f, InvalidNodeCount) /\ UNCHANGED lock
    ELSE IF UnknownNodeRaises(h, f.available_nodes)
    THEN Raise(c, f, NodeDoesNotExist) /\ UNCHANGED lock
    ELSE \E is_cluster_master \in BOOLEAN :
        LET g == [f EXCEPT !.is_cluster_master = is_cluster_master] IN
        IF MasterExclusionRaises(h, f.available_nodes, is_cluster_master)
        THEN Raise(c, g, InvalidNodes) /\ UNCHANGED lock
        ELSE /\ frame' = [frame EXCEPT ![c] = [g EXCEPT !.pc = "validated"]]
             /\ lock' = [lock EXCEPT ![h] = c]
             /\ UNCHANGED nodeState

\* factory.py:123-149.
BeginStorage(c, f, h) ==
    \E node \in NodeArgs, storage_type \in StorageTypes :
    \E drbd_enabled \in (IF storage_type = "DRBD" THEN BOOLEAN ELSE {TRUE}) :
        LET g == [f EXCEPT !.node = ResolveNode(h, node),
                           !.storage_type = storage_type,
                           !.drbd_enabled = drbd_enabled] IN
        IF storage_type = "DRBD" /\ ~drbd_enabled
        THEN Raise(c, g, DRBDNotEnabled) /\ UNCHANGED lock
        ELSE IF os_path_exists(h, f.name)
        THEN Raise(c, g, NameErrorRaised) /\ UNCHANGED lock
        ELSE \E available_nodes \in AvailArgs :
            BeginNodes(c, [g EXCEPT
                !.available_nodes_arg = available_nodes,
                !.available_nodes =
                    ResolveAvailableNodes(h, available_nodes, storage_type)], h)

\* factory.py:104-121.
BeginName(c, f, h) ==
    \E name \in CreateNames :
        LET g == [f EXCEPT !.name = name] IN
        IF CreateNameRaises(name)
        THEN Raise(c, g, InvalidName) /\ UNCHANGED lock
        ELSE \E cluster_disabled \in BOOLEAN :
            LET k == [g EXCEPT !.cluster_disabled = cluster_disabled]
                e == [k EXCEPT !.existed = name \in Range(virtual_machines[h])]
            IN
            IF cluster_disabled
            THEN Raise(c, k, ClusterNotInitialised) /\ UNCHANGED lock
            ELSE IF checkExists(h, name)
            THEN Raise(c, e, VmAlreadyExists) /\ UNCHANGED lock
            ELSE BeginStorage(c, e, h)

\* create takes the lock of its node and runs its checks (factory.py:99-162).
\* A check that raises ends the call and gives the lock back.
Begin(c) ==
    LET h == frame[c].host
        f == [frame[c] EXCEPT !.raced =
                 \E d \in Clients \ {c} :
                     frame[d].pc = "waiting" /\ frame[d].host = h]
    IN
    /\ frame[c].pc = "waiting"
    /\ NoneDone
    /\ LockFree(h)
    /\ \E authorized \in BOOLEAN, auth_check \in BOOLEAN :
        IF PermissionRaises(authorized, auth_check)
        THEN /\ Raise(c, [f EXCEPT !.authorized = authorized,
                                   !.auth_check = auth_check],
                      InsufficientPermissions)
             /\ UNCHANGED lock
        ELSE BeginName(c, [f EXCEPT !.authorized = authorized], h)
    /\ UNCHANGED <<clusterSize, calls, checked, listed>>

\* makedirs, the append to 'virtual_machines' and VirtualMachineConfig.create
\* (factory.py:164-176).  makedirs raises when the directory exists.
Mutate(c) ==
    LET f == frame[c]
        h == f.host
    IN
    /\ f.pc = "validated"
    /\ NoneDone
    /\ \E cpu_cores \in CpuArgs, memory_allocation \in MemArgs :
        LET g == [f EXCEPT !.cpu_cores = cpu_cores,
                           !.memory_allocation = memory_allocation] IN
        IF f.name \in vmDirs[h]
        THEN /\ Raise(c, g, OSErrorRaised)
             /\ lock' = [lock EXCEPT ![h] = NoHolder]
        ELSE /\ vmDirs' = [vmDirs EXCEPT ![h] = @ \cup {f.name}]
             /\ virtual_machines' = [virtual_machines EXCEPT ![h] =
                    updateMCVirtConfig(@, f.name)]
             /\ vmConfig' = [vmConfig EXCEPT ![h] = @ \cup
                    {NewConfig(f.name, f.available_nodes, cpu_cores,
                               memory_allocation)}]
             /\ frame' = [frame EXCEPT ![c] = [g EXCEPT
                    !.pc = "mutated",
                    !.todo = IF f.is_cluster_master
                             THEN Range(getNodes(h)) ELSE {}]]
             /\ UNCHANGED <<lock, domains, hardDrives, adapters>>
    /\ UNCHANGED <<clusterSize, calls, checked, listed>>


\* The create that a master runs on another node is called over the
\* cluster's own connection: it holds the permission and does not have the
\* master role.
RemoteAuthorized == TRUE
RemoteIsMaster == FALSE

\* The outcome of the checks of the create that the master runs on node m
\* (factory.py:184-187): name, cpu_cores, memory_allocation, node and
\* available_nodes are the master's, every other argument has its default.
RemoteChecks(m, f, cluster_disabled) ==
    IF PermissionRaises(RemoteAuthorized, TRUE) THEN InsufficientPermissions
    ELSE IF CreateNameRaises(f.name) THEN InvalidName
    ELSE IF cluster_disabled THEN ClusterNotInitialised
    ELSE IF checkExists(m, f.name) THEN VmAlreadyExists
    ELSE IF os_path_exists(m, f.name) THEN NameErrorRaised
    ELSE IF NodeCountRaises("None",
                ResolveAvailableNodes(m, f.available_nodes, "None"))
    THEN InvalidNodeCount
    ELSE IF UnknownNodeRaises(m,
                ResolveAvailableNodes(m, f.available_nodes, "None"))
    THEN NodeDoesNotExist
    ELSE IF MasterExclusionRaises(m,
                ResolveAvailableNodes(m, f.available_nodes, "None"),
                RemoteIsMaster)
    THEN InvalidNodes
    ELSE OK

\* The arguments of the create on a remote node, factory.py:184-187.
RemoteConfigUnresolved(f) ==
    NewConfig(f.name, f.available_nodes_arg, f.cpu_cores, f.memory_allocation)
RemoteConfig(f) ==
    NewConfig(f.name, f.available_nodes, f.cpu_cores, f.memory_allocation)

\* cluster_object.runRemoteCommand (factory.py:179-188): the master's create
\* runs create on another node m, which takes the lock of m.  The remote
\* create is not master: it creates directory, list entry and record,
\* registers the VM when node is m (factory.py:194-198, set_node False) and
\* creates no disk and no adapter.  A remote exception ends the master's
\* call; nothing is rolled back.
Remote(c, m) ==
    LET f == frame[c]
        h == f.host
    IN
    /\ f.pc = "mutated"
    /\ NoneDone
    /\ m \in f.todo
    /\ LockFree(m)
    /\ \E cluster_disabled \in BOOLEAN :
        LET r == RemoteChecks(m, f, cluster_disabled) IN
        IF r # OK
        THEN /\ Raise(c, [f EXCEPT !.failed_node = m], r)
             /\ lock' = [lock EXCEPT ![h] = NoHolder]
        ELSE /\ vmDirs' = [vmDirs EXCEPT ![m] = @ \cup {f.name}]
             /\ virtual_machines' = [virtual_machines EXCEPT ![m] =
                    updateMCVirtConfig(@, f.name)]
             /\ vmConfig' = [vmConfig EXCEPT ![m] = @ \cup {RemoteConfig(f)}]
             /\ domains' = [domains EXCEPT ![m] =
                    IF Registers(m, f.node) THEN @ \cup {f.name} ELSE @]
             /\ frame' = [frame EXCEPT ![c].todo = @ \ {m}]
             /\ UNCHANGED <<lock, hardDrives, adapters>>
    /\ UNCHANGED <<clusterSize, calls, checked, listed>>

\* factory.py:190-220: registration or _setNode, then (master only) the disks
\* and the network adapters; the call returns and gives the lock back.
Finish(c) ==
    LET f == frame[c]
        h == f.host
    IN
    /\ f.pc = "mutated"
    /\ NoneDone
    /\ f.todo = {}
    /\ \E hard_drives \in HardDriveArgs, network_interfaces \in NetworkArgs :
        /\ domains' = [domains EXCEPT ![h] =
               IF Registers(h, f.node) THEN @ \cup {f.name} ELSE @]
        /\ vmConfig' = [vmConfig EXCEPT ![h] =
               IF f.is_cluster_master THEN SetNode(@, f.name, f.node) ELSE @]
        /\ hardDrives' = [hardDrives EXCEPT ![h] =
               @ \o CreateHardDrives(f.is_cluster_master, f.name, hard_drives)]
        /\ adapters' = [adapters EXCEPT ![h] =
               @ \o CreateNetworkAdapters(f.is_cluster_master, f.name,
                                          network_interfaces)]
        /\ frame' = [frame EXCEPT ![c] = [f EXCEPT
               !.pc = "done", !.result = OK, !.hard_drives = hard_drives,
               !.network_interfaces = network_interfaces]]
    /\ lock' = [lock EXCEPT ![h] = NoHolder]
    /\ UNCHANGED <<clusterSize, virtual_machines, vmDirs, calls, checked, listed>>

\* The caller takes the outcome; what stays of the call is its node, its
\* name, its result and whether another call waited for it.
Return(c) ==
    /\ frame[c].pc = "done"
    /\ frame' = [frame EXCEPT ![c] = [Idle EXCEPT
           !.pc = "returned", !.host = frame[c].host, !.name = frame[c].name,
           !.result = frame[c].result, !.raced = frame[c].raced]]
    /\ UNCHANGED <<clusterSize, nodeState, lock, calls, checked, listed>>

Next ==
    \/ \E c \in Clients, h \in Hosts : Call(c, h)
    \/ \E c \in Clients : Begin(c)
    \/ \E c \in Clients : Mutate(c)
    \/ \E c \in Clients, m \in Hosts : Remote(c, m)
    \/ \E c \in Clients : Finish(c)
    \/ \E c \in Clients : Return(c)

Spec == Init /\ [][Next]_vars


\* ------------------------------------------------------------- fair create
\* A two-node cluster without VMs.
InitLive ==
    /\ Init
    /\ clusterSize = CLUSTER_SIZE
    /\ vmDirs = [h \in Hosts |-> {}]

\* The calls of the fair specification: an authorized caller creates NameOK
\* on an initialised node with local storage and with node and
\* available_nodes left at their defaults, with or without the master role.
LiveCall(f) ==
    /\ f.authorized
    /\ f.name = NameOK
    /\ ~f.cluster_disabled
    /\ f.storage_type = "None"
    /\ f.available_nodes_arg = <<>>
    /\ f.node \in {None, get_hostname(f.host)}

BeginLive(c) == Begin(c) /\ LiveCall(frame'[c])

NextLive ==
    \/ \E c \in Clients, h \in Hosts : Call(c, h)
    \/ \E c \in Clients : BeginLive(c)
    \/ \E c \in Clients : Mutate(c)
    \/ \E c \in Clients, m \in Hosts : Remote(c, m)
    \/ \E c \in Clients : Finish(c)
    \/ \E c \in Clients : Return(c)

\* Fair scheduling and a transport that answers every request: a create that
\* can take a step takes it, and one that waits for a lock (its own at
\* factory.py:99, a remote one at factory.py:184) gets it if the lock is
\* free again and again.
Fairness ==
    \A c \in Clients :
        /\ SF_vars(BeginLive(c))
        /\ WF_vars(Mutate(c))
        /\ \A m \in Hosts : SF_vars(Remote(c, m))
        /\ WF_vars(Finish(c))
        /\ WF_vars(Return(c))

SpecLive == InitLive /\ [][NextLive]_vars /\ Fairness

\* ---------------------------------------------------------------- checkName
\* The characters of the names handed to checkName.
Alphabet == {"a", "Z", "0", "-", "^", "!"}
AllNames == SeqsUpTo(Alphabet, MaxNameLen)

\* checkName, factory.py:83-96.
checkName(h, name) ==
    IF valid_name_re(name) THEN InvalidName
    ELSE IF Len(name) < MIN_NAME_LENGTH THEN InvalidName
    ELSE IF checkExists(h, name) THEN InvalidName
    ELSE "True"

CheckName(h, name) ==
    /\ h \in 1..clusterSize
    /\ checked' = [host |-> h, name |-> name, result |-> checkName(h, name)]
    /\ UNCHANGED <<clusterSize, nodeState, lock, frame, calls, listed>>

\* The lists of at most n names without repetition.
ListsOf(S, n) ==
    {l \in SeqsUpTo(S, n) : \A i, j \in 1..Len(l) : i # j => l[i] # l[j]}

\* A one-node cluster in which create, called without the master role and
\* with its defaults, has made the VMs of the list: create accepts every
\* name that holds no character of the class of factory.py:107.
InitName ==
    /\ clusterSize = 1
    /\ virtual_machines \in
           [Hosts -> ListsOf({n \in AllNames : ~CreateNameRaises(n)}, MaxListed)]
    /\ \A h \in Hosts : h > clusterSize => virtual_machines[h] = <<>>
    /\ vmDirs = [h \in Hosts |-> Range(virtual_machines[h])]
    /\ vmConfig = [h \in Hosts |->
           {NewConfig(n, <<h>>, 2, 512) : n \in Range(virtual_machines[h])}]
    /\ domains = [h \in Hosts |-> Range(virtual_machines[h])]
    /\ hardDrives = [h \in Hosts |-> <<>>]
    /\ adapters = [h \in Hosts |-> <<>>]
    /\ lock = [h \in Hosts |-> NoHolder]
    /\ frame = [c \in Clients |-> Idle]
    /\ calls = 0
    /\ checked = [host |-> None, name |-> <<>>, result |-> "none"]
    /\ listed = NotListed

NextName == \E h \in Hosts, name \in AllNames : CheckName(h, name)

SpecName == InitName /\ [][NextName]_vars


\* ------------------------------------------------------------ getAllVmNames
\* The outcomes of getAllVmNames: the list of the configuration
\* (factory.py:52), the names of the domains of libvirt (factory.py:55-56),
\* the attribute that the connection to the remote factory does not have
\* (factory.py:62 calls getallVmNames; the method is getAllVmNames,
\* factory.py:47), and the failure of runRemoteCommand to reach the node.
ConfigRead == "virtual_machines"
DomainsRead == "listAllDomains"
AttributeErrorRaised == "AttributeError: getallVmNames"
NodeUnreachable == "node unreachable"

\* getAllVmNames(node) called on node h, factory.py:47-63.
getAllVmNamesOf(h, node, reachable) ==
    LET l == [NotListed EXCEPT !.host = h, !.node = node,
                               !.reachable = reachable] IN
    IF node = None
    THEN [l EXCEPT !.result = ConfigRead, !.names = virtual_machines[h]]
    ELSE IF node = get_hostname(h)
    THEN [l EXCEPT !.result = DomainsRead, !.domains = domains[h]]
    ELSE IF ~reachable
    THEN [l EXCEPT !.result = NodeUnreachable, !.remote_calls = <<node>>]
    ELSE [l EXCEPT !.result = AttributeErrorRaised, !.remote_calls = <<node>>]

GetAllVmNames(h, node, reachable) ==
    /\ h \in 1..clusterSize
    /\ node \in {None} \cup (1..clusterSize)
    /\ reachable \/ node \notin {None, get_hostname(h)}
    /\ listed' = getAllVmNamesOf(h, node, reachable)
    /\ UNCHANGED <<clusterSize, nodeState, lock, frame, calls, checked>>

\* The names of the VMs that the creates have made.
ListedNames == {NameOK, NameShort}

\* A cluster in which creates without the master role have made the VMs of
\* the lists; a create whose node is another node registers no domain
\* (factory.py:194), so the domains of a node are some of its list.
InitList ==
    /\ clusterSize \in 1..MaxNodes
    /\ virtual_machines \in [Hosts -> ListsOf(ListedNames, MaxListed)]
    /\ \A h \in Hosts : h > clusterSize => virtual_machines[h] = <<>>
    /\ vmDirs = [h \in Hosts |-> Range(virtual_machines[h])]
    /\ vmConfig = [h \in Hosts |->
           {NewConfig(n, <<h>>, 2, 512) : n \in Range(virtual_machines[h])}]
    /\ domains \in [Hosts -> SUBSET ListedNames]
    /\ \A h \in Hosts : domains[h] \subseteq Range(virtual_machines[h])
    /\ hardDrives = [h \in Hosts |-> <<>>]
    /\ adapters = [h \in Hosts |-> <<>>]
    /\ lock = [h \in Hosts |-> NoHolder]
    /\ frame = [c \in Clients |-> Idle]
    /\ calls = 0
    /\ checked = [host |-> None, name |-> <<>>, result |-> "none"]
    /\ listed = NotListed

NextList ==
    \E h \in Hosts, node \in NodeArgs, reachable \in BOOLEAN :
        GetAllVmNames(h, node, reachable)

SpecList == InitList /\ [][NextList]_vars


\* ------------------------------------------------------------------ claims
Finished(f) == f.pc \in {"done", "returned"}

\* The call raised by itself (not through a remote create).
RaisedHere(f, r) == f.pc = "done" /\ f.result = r /\ f.failed_node = None

\* The frame holds a name: the call got past the permission check.
NameRead(f) ==
    f.pc \in {"validated", "mutated", "done"} /\ f.result # InsufficientPermissions

\* The call got past the checks of factory.py:104-133, so that its
\* available_nodes were read and resolved.
NodesRead(f) ==
    \/ f.pc \in {"validated", "mutated"}
    \/ /\ f.pc = "done"
       /\ \/ f.failed_node # None
          \/ f.result \in {InvalidNodeCount, NodeDoesNotExist, InvalidNodes,
                           OSErrorRaised, OK}

NoDuplicates(l) == \A i, j \in 1..Len(l) : i # j => l[i] # l[j]
Count(l, x) == Cardinality({i \in 1..Len(l) : l[i] = x})

ValidationErrors ==
    {InsufficientPermissions, InvalidName, ClusterNotInitialised,
     VmAlreadyExists, DRBDNotEnabled, NameErrorRaised, InvalidNodeCount,
     NodeDoesNotExist, InvalidNodes}

\* C1: no node's VM list ever holds a name twice, and after a create that
\* returned successfully the VM exists on its node (checkExists) and the
\* node's list holds the name exactly once.
C1_CreatedOnce ==
    /\ \A h \in Hosts : NoDuplicates(virtual_machines[h])
    /\ \A c \in Clients :
        (Finished(frame[c]) /\ frame[c].result = OK) =>
            /\ checkExists(frame[c].host, frame[c].name)
            /\ Count(getAllVmNames(frame[c].host), frame[c].name) = 1

C1_Witness ==
    \E c \in Clients :
        /\ frame[c].pc = "done" /\ frame[c].result = OK
        /\ Count(virtual_machines[frame[c].host], frame[c].name) = 1

\* C2: a create whose name is already in the VM list of its node (an earlier
\* create put it there) ends at its checks without changing directories, VM
\* lists, records or anything else of any node, and, unless the cluster is
\* disabled, with VmAlreadyExistsException.
C2_SecondCreateFails ==
    [][\A c \in Clients :
        ( /\ frame[c].pc = "waiting"
          /\ NameRead(frame'[c])
          /\ frame'[c].name \in Range(virtual_machines[frame[c].host]) )
        => /\ frame'[c].pc = "done"
           /\ UNCHANGED nodeState
           /\ frame'[c].result \in {ClusterNotInitialised, VmAlreadyExists}
           /\ ~frame'[c].cluster_disabled => frame'[c].result = VmAlreadyExists
      ]_vars

C2_Witness ==
    \E c, d \in Clients :
        /\ c # d
        /\ frame[d].pc = "returned" /\ frame[d].result = OK
        /\ RaisedHere(frame[c], VmAlreadyExists)
        /\ frame[c].host = frame[d].host /\ frame[c].name = frame[d].name
        /\ Count(virtual_machines[frame[c].host], frame[c].name) = 1

\* C3: of two creates of one name called on one node while one of them was
\* waiting for the other, never both succeed; once one has succeeded, the
\* other, when it gets past the permission and cluster checks, ends with
\* VmAlreadyExistsException; VmAlreadyExistsException is raised only for a
\* name that was in the list; and no create gets to makedirs for a directory
\* that another create has made since its checks.
C3_OneOfTwoSucceeds ==
    /\ \A c, d \in Clients :
        ( /\ c # d
          /\ Finished(frame[c]) /\ Finished(frame[d])
          /\ frame[c].host = frame[d].host /\ frame[c].name = frame[d].name
          /\ frame[c].raced \/ frame[d].raced )
        => /\ ~(frame[c].result = OK /\ frame[d].result = OK)
           /\ ( /\ frame[c].result = OK
                /\ frame[d].pc = "done"
                /\ NameRead(frame[d])
                /\ ~frame[d].cluster_disabled )
              => frame[d].result = VmAlreadyExists
    /\ \A c \in Clients :
        /\ RaisedHere(frame[c], VmAlreadyExists) => frame[c].existed
        /\ frame[c].result # OSErrorRaised

C3_Witness ==
    \E c, d \in Clients :
        /\ c # d
        /\ frame[c].pc = "returned" /\ frame[c].result = OK /\ frame[c].raced
        /\ RaisedHere(frame[d], VmAlreadyExists)
        /\ frame[c].host = frame[d].host /\ frame[c].name = frame[d].name

\* C4: a create that ends by raising at one of its own checks ends in its
\* first step and changes nothing on any node: no directory, list entry,
\* record, registration, disk or adapter, and no remote create has run.
C4_ValidationTouchesNothing ==
    [][\A c \in Clients :
        ( /\ frame[c].pc # "done"
          /\ frame'[c].pc = "done"
          /\ frame'[c].result \in ValidationErrors
          /\ frame'[c].failed_node = None )
        => /\ frame[c].pc = "waiting"
           /\ UNCHANGED nodeState
      ]_vars

C4_Witness ==
    \E c \in Clients :
        /\ RaisedHere(frame[c], InvalidName)
        /\ frame[c].name = NameBad
        /\ NameBad \notin vmDirs[frame[c].host]
        /\ NameBad \notin Range(virtual_machines[frame[c].host])

\* The names of the spec: [A-Za-z0-9-]{3,}.
Documented(name) ==
    /\ Len(name) >= MIN_NAME_LENGTH
    /\ \A i \in 1..Len(name) : name[i] \in DocumentedChars

\* C5: checkName succeeds for every name matching [A-Za-z0-9-]{3,} and fails
\* with InvalidName for every other name, whatever the VM list holds.
C5_CheckNameAsDocumented ==
    checked.result # "none" =>
        /\ Documented(checked.name) => checked.result = "True"
        /\ ~Documented(checked.name) => checked.result = InvalidName

\* C6: a create of an authorized caller whose name holds a character outside
\* [A-Za-z0-9-] or is shorter than 3 ends with InvalidName, having created
\* nothing.
C6_CreateValidatesName ==
    \A c \in Clients :
        (NameRead(frame[c]) /\ frame[c].authorized /\ ~Documented(frame[c].name))
        => /\ RaisedHere(frame[c], InvalidName)
           /\ frame[c].name \notin Range(virtual_machines[frame[c].host])

\* C7 as stated: with DRBD storage and an available_nodes argument whose
\* size is not 2, a create that got past the earlier checks ends with
\* 'Exactly two nodes must be specified'.
C7_AnySizeButTwoFails ==
    \A c \in Clients :
        ( /\ NodesRead(frame[c])
          /\ frame[c].storage_type = "DRBD"
          /\ Len(frame[c].available_nodes_arg) # CLUSTER_SIZE )
        => RaisedHere(frame[c], InvalidNodeCount)

\* C7 amended: with DRBD storage, a create that got past the earlier checks
\* ends with 'Exactly two nodes must be specified' when its available_nodes
\* argument is non-empty and not of length 2, and, when the argument is
\* empty, exactly when the cluster does not have 2 nodes; in no other case.
C7_NodeCountLaw ==
    \A c \in Clients :
        (NodesRead(frame[c]) /\ frame[c].storage_type = "DRBD")
        => LET n == Len(frame[c].available_nodes_arg) IN
           RaisedHere(frame[c], InvalidNodeCount)
               <=> \/ n # 0 /\ n # CLUSTER_SIZE
                   \/ n = 0 /\ clusterSize # CLUSTER_SIZE

C7_Witness ==
    \E c \in Clients :
        /\ RaisedHere(frame[c], InvalidNodeCount)
        /\ frame[c].storage_type = "DRBD"
        /\ Len(frame[c].available_nodes_arg) = 1

\* The call got as far as the master check of factory.py:161.
MasterRead(f) ==
    \/ f.pc \in {"validated", "mutated"}
    \/ /\ f.pc = "done"
       /\ f.failed_node # None \/ f.result \in {InvalidNodes, OSErrorRaised, OK}

\* C8: a create with the master role whose resolved available_nodes lack the
\* local node ends, once past the earlier checks, with 'One of the nodes must
\* be the local node' and leaves no trace of the VM on its node; without the
\* master role that error is never raised; and the record a master writes
\* names the master among its nodes.
C8_MasterExclusionLaw ==
    \A c \in Clients :
        LET f == frame[c]
            h == f.host
            excluded == get_hostname(h) \notin Range(f.available_nodes)
        IN
        /\ (MasterRead(f) /\ f.is_cluster_master /\ excluded)
           => /\ RaisedHere(f, InvalidNodes)
              /\ f.name \notin Range(virtual_machines[h])
              /\ f.name \notin vmDirs[h]
              /\ \A r \in vmConfig[h] : r.name # f.name
        /\ (MasterRead(f) /\ ~f.is_cluster_master) => ~RaisedHere(f, InvalidNodes)
        /\ RaisedHere(f, InvalidNodes) => f.is_cluster_master /\ excluded
        /\ (f.pc \in {"mutated", "done"} /\ f.is_cluster_master /\ f.result \in {"none", OK})
           => \A r \in vmConfig[h] :
                  r.name = f.name => get_hostname(h) \in Range(r.nodes)

C8_Witness ==
    \E c \in Clients :
        /\ RaisedHere(frame[c], InvalidNodes)
        /\ frame[c].is_cluster_master
        /\ frame[c].available_nodes_arg # <<>>
        /\ frame[c].host \notin Range(frame[c].available_nodes_arg)

\* C9: with auth_check true a caller without the permission ends with the
\* permission error; with auth_check false no permission is checked, so no
\* call ends with the permission error.
C9_AuthCheckHonoured ==
    \A c \in Clients :
        (frame[c].pc = "done" /\ ~frame[c].authorized)
        => IF frame[c].auth_check
           THEN RaisedHere(frame[c], InsufficientPermissions)
           ELSE frame[c].result # InsufficientPermissions

\* The record r of node h belongs to a VM whose create (in progress or just
\* returned) asked for DRBD storage.
CreatedWithDRBD(r) ==
    \E c \in Clients :
        /\ frame[c].pc \in {"mutated", "done"}
        /\ frame[c].result \in {"none", OK}
        /\ frame[c].storage_type = "DRBD"
        /\ frame[c].name = r.name

\* C10: every record a create wrote, on the calling node or on a node the
\* fan-out reached, has nodes that are non-empty and all members of the
\* cluster; the nodes of a VM created with DRBD storage are exactly 2
\* distinct host names.
C10_RecordNodes ==
    \A h \in Hosts : \A r \in vmConfig[h] :
        /\ r.nodes # <<>>
        /\ \A i \in 1..Len(r.nodes) : r.nodes[i] \in 1..clusterSize
        /\ CreatedWithDRBD(r) =>
               /\ Len(r.nodes) = CLUSTER_SIZE
               /\ Cardinality(Range(r.nodes)) = CLUSTER_SIZE

\* The records of node h for the VM of the name.
RecordsOf(h, name) == {r \in vmConfig[h] : r.name = name}

\* The call of the frame has just ended successfully.
Succeeded(f) == f.pc = "done" /\ f.result = OK

\* C11: the record of every VM that a create with local storage (storage_type
\* None) made successfully names exactly 1 host in its nodes, whether
\* available_nodes was left empty or given by the caller.
C11_LocalRecordHasOneNode ==
    \A c \in Clients :
        (Succeeded(frame[c]) /\ frame[c].storage_type = "None")
        => \A r \in RecordsOf(frame[c].host, frame[c].name) : Len(r.nodes) = 1

\* C12: when a create with the master role has ended successfully, every
\* other member of the cluster lists the name and holds a record of it with
\* the nodes, cpu_cores and memory_allocation of the master's record, whose
\* nodes are the resolved available_nodes; with DRBD storage and an empty
\* available_nodes argument in a two-node cluster these are both nodes.
C12_FanOutMirrors ==
    \A c \in Clients :
        LET f == frame[c]
            h == f.host
        IN
        (Succeeded(f) /\ f.is_cluster_master)
        => /\ RecordsOf(h, f.name) # {}
           /\ \A s \in RecordsOf(h, f.name) : s.nodes = f.available_nodes
           /\ \A m \in (1..clusterSize) \ {h} :
                /\ f.name \in Range(virtual_machines[m])
                /\ RecordsOf(m, f.name) # {}
                /\ \A r \in RecordsOf(m, f.name), s \in RecordsOf(h, f.name) :
                       /\ r.nodes = s.nodes
                       /\ r.cpu_cores = s.cpu_cores
                       /\ r.memory_allocation = s.memory_allocation
           /\ ( /\ f.storage_type = "DRBD"
                /\ f.available_nodes_arg = <<>>
                /\ clusterSize = CLUSTER_SIZE )
              => Range(f.available_nodes) = 1..clusterSize

C12_Witness ==
    \E c \in Clients :
        LET f == frame[c] IN
        /\ Succeeded(f) /\ f.is_cluster_master
        /\ f.storage_type = "DRBD" /\ f.available_nodes_arg = <<>>
        /\ clusterSize = CLUSTER_SIZE
        /\ \E m \in (1..clusterSize) \ {f.host} :
              \E r \in RecordsOf(m, f.name) : Range(r.nodes) = 1..clusterSize

\* C13: getAllVmNames with node unset returns the list of the local
\* configuration and makes no remote call; with node the local host name it
\* returns the names of the local domains; with another node of the cluster
\* it makes one remote call, to that node, and returns the names of that
\* node's domains, and fails only when the node is not reachable.
C13_ListNamesAsDocumented ==
    listed.result # "none" =>
        LET h == listed.host
            n == listed.node
        IN
        /\ n = None =>
               /\ listed.result = ConfigRead
               /\ listed.names = virtual_machines[h]
               /\ listed.remote_calls = <<>>
        /\ n = get_hostname(h) =>
               /\ listed.result = DomainsRead
               /\ listed.domains = domains[h]
        /\ n \notin {None, get_hostname(h)} =>
               /\ listed.remote_calls = <<n>>
               /\ listed.reachable =>
                      /\ listed.result = DomainsRead
                      /\ listed.domains = domains[n]
               /\ ~listed.reachable => listed.result = NodeUnreachable

\* Node h holds the directory, the list entry and the record of the name.
Committed(h, name) ==
    /\ name \in vmDirs[h]
    /\ name \in Range(virtual_machines[h])
    /\ RecordsOf(h, name) # {}

\* Node h holds no registration, node field, disk or adapter of the name.
NothingProvisioned(h, name) ==
    /\ name \notin domains[h]
    /\ \A r \in RecordsOf(h, name) : r.node = None
    /\ \A i \in 1..Len(hardDrives[h]) : hardDrives[h][i][1] # name
    /\ \A i \in 1..Len(adapters[h]) : adapters[h][i][1] # name

\* C14: every step of a master's fan-out, the remote create that succeeds
\* and the one that fails, starts with the directory, the list entry and the
\* record already on the master; a remote create that fails ends the
\* master's call with its error and changes nothing, so that the master
\* keeps directory, list entry and record and has no registration, node
\* field, disk or adapter of the VM.
C14_FanOutFailureKeepsLocal ==
    [][\A c \in Clients :
        LET f == frame[c]
            g == frame'[c]
            h == f.host
        IN
        /\ (f.pc = "mutated" /\ (g.todo # f.todo \/ g.failed_node # None))
           => f.is_cluster_master /\ Committed(h, f.name)
        /\ (f.pc = "mutated" /\ g.failed_node # None)
           => /\ g.pc = "done"
              /\ g.result \notin {OK, "none"}
              /\ UNCHANGED nodeState
              /\ Committed(h, f.name)'
              /\ NothingProvisioned(h, f.name)'
      ]_vars

C14_Witness ==
    \E c \in Clients :
        LET f == frame[c] IN
        /\ f.pc = "done" /\ f.failed_node # None /\ f.result = ClusterNotInitialised
        /\ Committed(f.host, f.name)
        /\ NothingProvisioned(f.host, f.name)
        /\ f.name \notin vmDirs[f.failed_node]

\* The error of the first check, in the order of the spec (section 4.3, 1-7,
\* and section 4.2, 2-4), that the call of the frame violates on its node.
FirstViolated(f) ==
    LET h == f.host IN
    IF ~f.authorized THEN InsufficientPermissions
    ELSE IF ~Documented(f.name) THEN InvalidName
    ELSE IF f.cluster_disabled THEN ClusterNotInitialised
    ELSE IF f.name \in Range(virtual_machines[h]) THEN VmAlreadyExists
    ELSE IF f.storage_type = "DRBD" /\ ~f.drbd_enabled THEN DRBDNotEnabled
    ELSE IF f.name \in vmDirs[h] THEN VmDirectoryAlreadyExists
    ELSE IF f.storage_type = "DRBD" /\ Len(f.available_nodes) # CLUSTER_SIZE
    THEN InvalidNodeCount
    ELSE IF \E i \in 1..Len(f.available_nodes) :
                f.available_nodes[i] \notin 1..clusterSize
    THEN NodeDoesNotExist
    ELSE IF h \notin Range(f.available_nodes) /\ f.is_cluster_master
    THEN InvalidNodes
    ELSE OK

\* C15: a create that ends with the error of one of its own checks ends with
\* the error of the first check it violates in the order permission, name,
\* cluster initialised, name not existing, DRBD enabled, VM directory
\* absent, node count, unknown node, master exclusion.
C15_FirstFailingCheckWins ==
    \A c \in Clients :
        (frame[c].pc = "done" /\ frame[c].failed_node = None /\ frame[c].result # OK)
        => frame[c].result = FirstViolated(frame[c])

\* C16: after a successful create the VM is registered with libvirt on the
\* calling node exactly when the resolved node, which is a host name and the
\* local one when none was given, is the calling node; with the master role
\* the node field of the record is the resolved node, also when that is
\* another node, where the VM is then not registered locally; without the
\* master role the node field stays unset, as it does on every node the
\* fan-out reached, where the VM is registered exactly on the resolved node.
C16_RegistrationAndNodeField ==
    \A c \in Clients :
        LET f == frame[c]
            h == f.host
        IN
        Succeeded(f)
        => /\ f.node \in Hosts
           /\ f.name \in domains[h] <=> f.node = get_hostname(h)
           /\ RecordsOf(h, f.name) # {}
           /\ \A r \in RecordsOf(h, f.name) :
                  r.node = IF f.is_cluster_master THEN f.node ELSE None
           /\ f.is_cluster_master =>
                  \A m \in (1..clusterSize) \ {h} :
                      /\ \A r \in RecordsOf(m, f.name) : r.node = None
                      /\ f.name \in domains[m] <=> f.node = get_hostname(m)

C16_Witness ==
    \E c \in Clients :
        LET f == frame[c] IN
        /\ Succeeded(f) /\ f.is_cluster_master
        /\ f.node # get_hostname(f.host)
        /\ f.name \notin domains[f.host]
        /\ \E r \in RecordsOf(f.host, f.name) : r.node = f.node

\* The hard_drive_factory.create and network_adapter_factory.create calls
\* made on node h for the VM of the name.
DisksOf(h, name) ==
    Cardinality({i \in 1..Len(hardDrives[h]) : hardDrives[h][i][1] = name})
AdaptersOf(h, name) ==
    Cardinality({i \in 1..Len(adapters[h]) : adapters[h][i][1] = name})

\* C17: while the create of a master is at its fan-out no node has a disk or
\* an adapter of the VM; the step that ends the create successfully comes
\* after the fan-out has returned and leaves, on the master, one disk per
\* requested hard drive and one adapter per requested network interface,
\* and none on any other node; no other step creates a disk or an adapter.
C17_ProvisionedOnceOnMaster ==
    [][/\ \A c \in Clients :
            LET f == frame[c]
                g == frame'[c]
                h == f.host
            IN
            (f.pc = "mutated" /\ f.is_cluster_master)
            => /\ \A m \in Hosts :
                     DisksOf(m, f.name) = 0 /\ AdaptersOf(m, f.name) = 0
               /\ (g.pc = "done" /\ g.result = OK)
                  => /\ f.todo = {}
                     /\ DisksOf(h, f.name)' = Len(g.hard_drives)
                     /\ AdaptersOf(h, f.name)' = Len(g.network_interfaces)
                     /\ \A m \in Hosts \ {h} :
                            DisksOf(m, f.name)' = 0 /\ AdaptersOf(m, f.name)' = 0
       /\ (hardDrives' # hardDrives \/ adapters' # adapters)
          => \E c \in Clients :
                 /\ frame[c].pc = "mutated" /\ frame[c].todo = {}
                 /\ frame[c].is_cluster_master
                 /\ frame'[c].pc = "done" /\ frame'[c].result = OK
      ]_vars

C17_Witness ==
    \E c \in Clients :
        LET f == frame[c] IN
        /\ Succeeded(f) /\ f.is_cluster_master
        /\ clusterSize = 2
        /\ Len(f.hard_drives) = 1 /\ Len(f.network_interfaces) = 1
        /\ DisksOf(f.host, f.name) = 1 /\ AdaptersOf(f.host, f.name) = 1
        /\ \A m \in Hosts \ {f.host} :
               /\ f.name \in Range(virtual_machines[m])
               /\ DisksOf(m, f.name) = 0 /\ AdaptersOf(m, f.name) = 0

\* C18: a create that gets past the checks before the directory check and
\* finds the directory of the VM ends with VmDirectoryAlreadyExistsException
\* and with the name in no list and no record of its node; no create gets
\* past its checks while the directory exists.
C18_DirectoryConflict ==
    \A c \in Clients :
        LET f == frame[c]
            h == f.host
        IN
        /\ ( /\ f.pc = "done" /\ f.failed_node = None
             /\ f.result \notin {OK, InsufficientPermissions, InvalidName,
                                  ClusterNotInitialised, VmAlreadyExists,
                                  DRBDNotEnabled}
             /\ os_path_exists(h, f.name) )
           => /\ f.result = VmDirectoryAlreadyExists
              /\ ~checkExists(h, f.name)
              /\ RecordsOf(h, f.name) = {}
        /\ f.pc = "validated" => ~os_path_exists(h, f.name)

\* C19: after a successful create that registered the VM or wrote its node
\* field, the resolved node is a member of the cluster and one of the nodes
\* of the VM's record.
C19_TargetNodeInNodes ==
    \A c \in Clients :
        LET f == frame[c]
            h == f.host
        IN
        (Succeeded(f) /\ (f.is_cluster_master \/ f.node = get_hostname(h)))
        => /\ f.node \in 1..clusterSize
           /\ \A r \in RecordsOf(h, f.name) : f.node \in Range(r.nodes)

\* C20: under fair scheduling every create that was called returns, and
\* every lock that is held is given back.
C20_EveryCreateReturns ==
    /\ \A c \in Clients :
           (frame[c].pc = "waiting") ~> (frame[c].pc = "returned")
    /\ \A h \in Hosts : (lock[h] # NoHolder) ~> (lock[h] = NoHolder)

====
